---- MODULE Spec2Model ----
(***************************************************************************)
(* Model of clean_to_silver.py: the five-stage batch pipeline              *)
(*   normalize_columns -> coerce_types -> clean_rows ->                    *)
(*   recompute_duration_fields -> drop_duplicates_by_key                   *)
(* run by main() over one in-memory table.                                 *)
(*                                                                         *)
(* Text (column names, raw cells) is a sequence of one-character strings,  *)
(* so that strip / lower / replace / number parsing are computed character *)
(* by character.  A number is an exact fraction n/d in lowest terms.  A    *)
(* table is a header (sequence of names) and a sequence of rows, each row  *)
(* a sequence of cells aligned with the header.                            *)
(***************************************************************************)
EXTENDS Integers, Sequences, FiniteSets

VARIABLES pc, raw, df, dup_count, key_used

vars == <<pc, raw, df, dup_count, key_used>>

(***************************************************************************)
(* Bounds of the explored inputs.                                          *)
(***************************************************************************)
MaxRows == 3
MaxNameLen == 3
MaxCellLen == 3

(***************************************************************************)
(* Characters.                                                             *)
(***************************************************************************)
UPPER ==
    <<"A","B","C","D","E","F","G","H","I","J","K","L","M",
      "N","O","P","Q","R","S","T","U","V","W","X","Y","Z">>

LOWER ==
    <<"a","b","c","d","e","f","g","h","i","j","k","l","m",
      "n","o","p","q","r","s","t","u","v","w","x","y","z">>

DIGITS == <<"0","1","2","3","4","5","6","7","8","9">>

Whitespace == {" ", "\t", "\n", "\r"}

IsUpper(c) == \E i \in 1..Len(UPPER) : UPPER[i] = c

IsDigit(c) == \E i \in 1..Len(DIGITS) : DIGITS[i] = c

DigitVal(c) == (CHOOSE i \in 1..Len(DIGITS) : DIGITS[i] = c) - 1

CharLower(c) ==
    IF IsUpper(c) THEN LOWER[CHOOSE i \in 1..Len(UPPER) : UPPER[i] = c] ELSE c

(* str.lower() *)
StrLower(s) == [i \in 1..Len(s) |-> CharLower(s[i])]

(* str.replace(old, new) for a one-character old *)
StrReplace(s, old, new) == [i \in 1..Len(s) |-> IF s[i] = old THEN new ELSE s[i]]

RECURSIVE LStrip(_)
LStrip(s) ==
    IF s # <<>> /\ Head(s) \in Whitespace THEN LStrip(Tail(s)) ELSE s

RECURSIVE RStrip(_)
RStrip(s) ==
    IF s # <<>> /\ s[Len(s)] \in Whitespace
    THEN RStrip(SubSeq(s, 1, Len(s) - 1))
    ELSE s

(* str.strip(): leading and trailing whitespace only *)
StrStrip(s) == RStrip(LStrip(s))

(* all sequences over alphabet A of length 0..n *)
RECURSIVE SeqsUpTo(_, _)
SeqsUpTo(A, n) ==
    IF n = 0 THEN {<<>>}
    ELSE LET shorter == SeqsUpTo(A, n - 1)
         IN  shorter \cup {Append(s, a) : s \in shorter, a \in A}

(***************************************************************************)
(* Column registries (module constants of clean_to_silver.py).             *)
(***************************************************************************)
trip_duration_sec ==
    <<"t","r","i","p","_","d","u","r","a","t","i","o","n","_","s","e","c">>
trip_duration_min ==
    <<"t","r","i","p","_","d","u","r","a","t","i","o","n","_","m","i","n">>
trip_duration_hr ==
    <<"t","r","i","p","_","d","u","r","a","t","i","o","n","_","h","r">>
distance_traveled_km ==
    <<"d","i","s","t","a","n","c","e","_","t","r","a","v","e","l","e","d","_","k","m">>
kph ==
    <<"k","p","h">>
wait_time_cost ==
    <<"w","a","i","t","_","t","i","m","e","_","c","o","s","t">>
distance_cost ==
    <<"d","i","s","t","a","n","c","e","_","c","o","s","t">>
fare_w_flag ==
    <<"f","a","r","e","_","w","_","f","l","a","g">>
tip ==
    <<"t","i","p">>
miscellaneous_fees ==
    <<"m","i","s","c","e","l","l","a","n","e","o","u","s","_","f","e","e","s">>
total_fare_new ==
    <<"t","o","t","a","l","_","f","a","r","e","_","n","e","w">>
num_of_passengers ==
    <<"n","u","m","_","o","f","_","p","a","s","s","e","n","g","e","r","s">>
surge_applied ==
    <<"s","u","r","g","e","_","a","p","p","l","i","e","d">>

NUM_COLS ==
    <<trip_duration_sec, trip_duration_min, trip_duration_hr,
      distance_traveled_km, kph,
      wait_time_cost, distance_cost, fare_w_flag,
      tip, miscellaneous_fees, total_fare_new,
      num_of_passengers>>

MONEY_COLS ==
    <<wait_time_cost, distance_cost, fare_w_flag, tip, miscellaneous_fees, total_fare_new>>

COMPOSITE_KEY ==
    <<trip_duration_sec, distance_traveled_km, total_fare_new,
      num_of_passengers, tip, surge_applied>>

Range(s) == {s[i] : i \in 1..Len(s)}

(***************************************************************************)
(* Cells.  t is "str" (text s), "num" (the fraction n/d, d > 0, lowest     *)
(* terms), "bool" (n = 1 for True, 0 for False) or "nan" (missing).        *)
(***************************************************************************)
RECURSIVE Gcd(_, _)
Gcd(a, b) == IF b = 0 THEN a ELSE Gcd(b, a % b)

Abs(x) == IF x < 0 THEN -x ELSE x

NaN == [t |-> "nan", s |-> <<>>, n |-> 0, d |-> 1]

Str(s) == [t |-> "str", s |-> s, n |-> 0, d |-> 1]

Bool(b) == [t |-> "bool", s |-> <<>>, n |-> IF b THEN 1 ELSE 0, d |-> 1]

(* the number n/d (d > 0), reduced *)
Num(n, d) ==
    LET g == Gcd(Abs(n), d)
    IN  [t |-> "num", s |-> <<>>, n |-> n \div g, d |-> d \div g]

IsNaN(c) == c.t = "nan"

(* a numeric column's cell compared with an integer threshold k;           *)
(* any comparison with NaN is False                                        *)
Gt(c, k) == c.t # "nan" /\ c.n > k * c.d
Ge(c, k) == c.t # "nan" /\ c.n >= k * c.d
Le(c, k) == c.t # "nan" /\ c.n <= k * c.d

(* Series.fillna(0) on one cell *)
FillNa0(c) == IF IsNaN(c) THEN Num(0, 1) ELSE c

(* cell / k for a positive integer k; NaN / k is NaN *)
DivBy(c, k) == IF IsNaN(c) THEN NaN ELSE Num(c.n, c.d * k)

(***************************************************************************)
(* Tables.                                                                 *)
(***************************************************************************)
Table(columns, rows) == [columns |-> columns, rows |-> rows]

HasCol(t, c) == c \in Range(t.columns)

ColIdx(t, c) == CHOOSE i \in 1..Len(t.columns) : t.columns[i] = c

Cell(t, row, c) == row[ColIdx(t, c)]

(* d[c] = cells (one value per row): overwrites column c in place, or      *)
(* appends it as the last column                                           *)
SetCol(t, c, cells) ==
    IF HasCol(t, c)
    THEN Table(t.columns,
               [r \in 1..Len(t.rows) |->
                   [j \in 1..Len(t.columns) |->
                       IF j = ColIdx(t, c) THEN cells[r] ELSE t.rows[r][j]]])
    ELSE Table(Append(t.columns, c),
               [r \in 1..Len(t.rows) |-> Append(t.rows[r], cells[r])])

(* the column as a sequence of cells, one per row *)
Col(t, c) == [r \in 1..Len(t.rows) |-> Cell(t, t.rows[r], c)]

(* df[mask]: the rows whose mask entry is True, in order *)
RECURSIVE MaskFrom(_, _, _)
MaskFrom(rows, mask, i) ==
    IF i > Len(rows) THEN <<>>
    ELSE (IF mask[i] THEN <<rows[i]>> ELSE <<>>) \o MaskFrom(rows, mask, i + 1)

FilterRows(t, mask) == Table(t.columns, MaskFrom(t.rows, mask, 1))

(***************************************************************************)
(* normalize_columns: strip, lower, " " -> "_", "-" -> "_" on every name.  *)
(***************************************************************************)
(* faulty variant: the hyphen is replaced by a space *)
NormalizeNameHyphenToSpace(name) ==
    StrReplace(StrReplace(StrLower(StrStrip(name)), " ", "_"), "-", " ")

(* faulty variant: the name is not lowercased *)
NormalizeNameNoLower(name) ==
    StrReplace(StrReplace(StrStrip(name), " ", "_"), "-", "_")

NormalizeName(name) ==
    StrReplace(StrReplace(StrLower(StrStrip(name)), " ", "_"), "-", "_")

normalize_columns(t) ==
    Table([i \in 1..Len(t.columns) |-> NormalizeName(t.columns[i])], t.rows)

(***************************************************************************)
(* coerce_types.                                                           *)
(***************************************************************************)
RECURSIVE Pow10(_)
Pow10(k) == IF k = 0 THEN 1 ELSE 10 * Pow10(k - 1)

(* value of a sequence of decimal digits *)
RECURSIVE DigitsVal(_)
DigitsVal(s) ==
    IF s = <<>> THEN 0
    ELSE 10 * DigitsVal(SubSeq(s, 1, Len(s) - 1)) + DigitVal(s[Len(s)])

(* The number a text parses to, else NaN: surrounding whitespace skipped,  *)
(* optional sign, decimal digits with at most one ".", at least one digit. *)
ParseNumber(s) ==
    LET b      == StrStrip(s)
        signed == b # <<>> /\ b[1] \in {"-", "+"}
        body   == IF signed THEN Tail(b) ELSE b
        dots   == {i \in 1..Len(body) : body[i] = "."}
        dot    == IF dots = {} THEN Len(body) + 1 ELSE CHOOSE i \in dots : TRUE
        ip     == SubSeq(body, 1, dot - 1)
        fp     == SubSeq(body, dot + 1, Len(body))
        digs   == ip \o fp
        ok     == /\ Cardinality(dots) <= 1
                  /\ digs # <<>>
                  /\ \A i \in 1..Len(digs) : IsDigit(digs[i])
        mag    == DigitsVal(digs)
    IN  IF ok
        THEN Num(IF signed /\ b[1] = "-" THEN -mag ELSE mag, Pow10(Len(fp)))
        ELSE NaN

(* faulty variant: a text that does not parse becomes 0 *)
ToNumericZero(c) ==
    CASE c.t = "str"  -> FillNa0(ParseNumber(c.s))
      [] c.t = "num"  -> c
      [] c.t = "bool" -> Num(c.n, 1)
      [] c.t = "nan"  -> NaN

(* pd.to_numeric(errors="coerce") on one cell *)
ToNumeric(c) ==
    CASE c.t = "str"  -> ParseNumber(c.s)
      [] c.t = "num"  -> c
      [] c.t = "bool" -> Num(c.n, 1)
      [] c.t = "nan"  -> NaN

(* dtype of a column as the reader builds it: bool when every cell is a    *)
(* boolean, float64 when every cell is a number or missing, else object    *)
(* (text, or booleans mixed with missing cells; also a column of no rows). *)
ColDtype(t, c) ==
    LET cells == {Cell(t, t.rows[r], c) : r \in 1..Len(t.rows)}
    IN  IF cells = {} THEN "object"
        ELSE IF \A x \in cells : x.t = "bool" THEN "bool"
        ELSE IF \A x \in cells : x.t \in {"num", "nan"} THEN "float64"
        ELSE "object"

(* astype(str) on a cell of an object column (text, boolean or missing) *)
AsTypeStr(c) ==
    CASE c.t = "str"  -> c.s
      [] c.t = "nan"  -> <<"n","a","n">>
      [] c.t = "bool" -> IF c.n = 1 THEN <<"T","r","u","e">> ELSE <<"F","a","l","s","e">>

(* .map({"true": True, "false": False, "1": True, "0": False}) *)
SurgeMap(s) ==
    CASE s = <<"t","r","u","e">>     -> Bool(TRUE)
      [] s = <<"f","a","l","s","e">> -> Bool(FALSE)
      [] s = <<"1">>                 -> Bool(TRUE)
      [] s = <<"0">>                 -> Bool(FALSE)
      [] OTHER                       -> NaN

(* Series.fillna(False) on one cell *)
FillNaFalse(c) == IF IsNaN(c) THEN Bool(FALSE) ELSE c

(* faulty variant: no fillna(False), an unrecognised text stays missing *)
SurgeFromTextNoFill(c) == SurgeMap(StrLower(StrStrip(AsTypeStr(c))))

(* the object-dtype branch, lines 54-58 *)
SurgeFromText(c) == FillNaFalse(SurgeMap(StrLower(StrStrip(AsTypeStr(c)))))

(* astype(bool) on a number, boolean or NaN: only zero and False are False *)
AsTypeBool(c) ==
    CASE c.t = "num"  -> Bool(c.n # 0)
      [] c.t = "bool" -> c
      [] c.t = "nan"  -> Bool(TRUE)

(* pd.to_numeric(d[c], errors="coerce") *)
ToNumericCol(cells) == [r \in 1..Len(cells) |-> ToNumeric(cells[r])]

RECURSIVE CoerceNumCols(_, _)
CoerceNumCols(t, i) ==
    IF i > Len(NUM_COLS) THEN t
    ELSE CoerceNumCols(IF HasCol(t, NUM_COLS[i])
                       THEN SetCol(t, NUM_COLS[i], ToNumericCol(Col(t, NUM_COLS[i])))
                       ELSE t,
                       i + 1)

coerce_types(t) ==
    LET d == CoerceNumCols(t, 1)
    IN  IF HasCol(d, surge_applied)
        THEN IF ColDtype(d, surge_applied) = "object"
             THEN SetCol(d, surge_applied,
                         [r \in 1..Len(d.rows) |-> SurgeFromText(Col(d, surge_applied)[r])])
             ELSE SetCol(d, surge_applied,
                         [r \in 1..Len(d.rows) |-> AsTypeBool(Col(d, surge_applied)[r])])
        ELSE d

(***************************************************************************)
(* clean_rows: one boolean-mask filter after another, in source order.     *)
(***************************************************************************)
MaxKph == 160

FilterPositive(t, c) ==
    IF HasCol(t, c)
    THEN FilterRows(t, [r \in 1..Len(t.rows) |-> Gt(FillNa0(Col(t, c)[r]), 0)])
    ELSE t

(* faulty variant: no fillna(0), so a missing monetary value drops the row *)
FilterMoneyColNoFill(t, m) ==
    IF HasCol(t, m)
    THEN FilterRows(t, [r \in 1..Len(t.rows) |-> Ge(Col(t, m)[r], 0)])
    ELSE t

FilterMoneyCol(t, m) ==
    IF HasCol(t, m)
    THEN FilterRows(t, [r \in 1..Len(t.rows) |-> Ge(FillNa0(Col(t, m)[r]), 0)])
    ELSE t

RECURSIVE FilterMoney(_, _)
FilterMoney(t, i) ==
    IF i > Len(MONEY_COLS) THEN t
    ELSE FilterMoney(FilterMoneyCol(t, MONEY_COLS[i]), i + 1)

FilterPassengers(t) ==
    IF HasCol(t, num_of_passengers)
    THEN FilterRows(t, [r \in 1..Len(t.rows) |->
                           Ge(FillNa0(Col(t, num_of_passengers)[r]), 1)])
    ELSE t

(* faulty variant: the upper speed limit is not applied *)
FilterKphNoCap(t) ==
    IF HasCol(t, kph)
    THEN FilterRows(t, [r \in 1..Len(t.rows) |-> Gt(FillNa0(Col(t, kph)[r]), 0)])
    ELSE t

FilterKph(t) ==
    IF HasCol(t, kph)
    THEN FilterRows(t, [r \in 1..Len(t.rows) |->
                           /\ Gt(FillNa0(Col(t, kph)[r]), 0)
                           /\ Le(Col(t, kph)[r], MaxKph)])
    ELSE t

clean_rows(t) ==
    FilterKph(FilterPassengers(FilterMoney(
        FilterPositive(FilterPositive(FilterPositive(t,
            trip_duration_sec), trip_duration_min), distance_traveled_km), 1)))

(***************************************************************************)
(* recompute_duration_fields.                                              *)
(***************************************************************************)
SecPerMin == 60
MinPerHr == 60
SecPerHr == 3600
HrDecimals == 6

(* round-half-even of a / b to an integer, b > 0 *)
RoundHalfEven(a, b) ==
    LET q == a \div b
        r == a % b
    IN  IF 2 * r < b THEN q
        ELSE IF 2 * r > b THEN q + 1
        ELSE IF q % 2 = 0 THEN q ELSE q + 1

(* Series.round(k) on one cell *)
Round(c, k) ==
    IF IsNaN(c) THEN NaN
    ELSE Num(RoundHalfEven(c.n * Pow10(k), c.d), Pow10(k))

DeriveMinutes(t) ==
    IF ~HasCol(t, trip_duration_min) /\ HasCol(t, trip_duration_sec)
    THEN SetCol(t, trip_duration_min,
                [r \in 1..Len(t.rows) |-> DivBy(Col(t, trip_duration_sec)[r], SecPerMin)])
    ELSE t

(* faulty variant: the hours are not rounded *)
recompute_duration_fields_NoRound(t) ==
    LET d == DeriveMinutes(t)
    IN  IF HasCol(d, trip_duration_min)
        THEN SetCol(d, trip_duration_hr,
                    [r \in 1..Len(d.rows) |-> DivBy(Col(d, trip_duration_min)[r], MinPerHr)])
        ELSE d

recompute_duration_fields(t) ==
    LET d == DeriveMinutes(t)
    IN  IF HasCol(d, trip_duration_min)
        THEN SetCol(d, trip_duration_hr,
                    [r \in 1..Len(d.rows) |->
                        Round(DivBy(Col(d, trip_duration_min)[r], MinPerHr), HrDecimals)])
        ELSE IF HasCol(d, trip_duration_sec)
        THEN SetCol(d, trip_duration_hr,
                    [r \in 1..Len(d.rows) |->
                        Round(DivBy(Col(d, trip_duration_sec)[r], SecPerHr), HrDecimals)])
        ELSE d

(***************************************************************************)
(* drop_duplicates_by_key.                                                 *)
(***************************************************************************)
(* [c for c in COMPOSITE_KEY if c in df.columns] *)
KeyOf(t) ==
    LET Present(c) == HasCol(t, c) IN SelectSeq(COMPOSITE_KEY, Present)

(* a row's values on the key columns; a missing cell equals a missing cell *)
Project(t, row, key) == [i \in 1..Len(key) |-> Cell(t, row, key[i])]

(* DataFrame.duplicated(subset=key), keep="first": one scan that marks     *)
(* every row whose key values were already seen                            *)
RECURSIVE DuplicatedFrom(_, _, _, _)
DuplicatedFrom(t, key, i, seen) ==
    IF i > Len(t.rows) THEN <<>>
    ELSE LET p == Project(t, t.rows[i], key)
         IN  <<p \in seen>> \o DuplicatedFrom(t, key, i + 1, seen \cup {p})

(* faulty variant: a row with a missing key value never counts as a duplicate *)
DuplicatedNaNDistinct(t, key) ==
    LET mask == DuplicatedFrom(t, key, 1, {})
    IN  [i \in 1..Len(t.rows) |->
            mask[i] /\ \A k \in 1..Len(key) : ~IsNaN(Cell(t, t.rows[i], key[k]))]

Duplicated(t, key) == DuplicatedFrom(t, key, 1, {})

(* faulty variant: keep="last", the last row of each key value survives *)
DropDuplicatesKeepLast(t, key) ==
    FilterRows(t, [i \in 1..Len(t.rows) |->
                      \A j \in (i + 1)..Len(t.rows) :
                          Project(t, t.rows[j], key) # Project(t, t.rows[i], key)])

(* DataFrame.drop_duplicates(subset=key): the rows not marked *)
DropDuplicates(t, key) ==
    FilterRows(t, [i \in 1..Len(t.rows) |-> ~Duplicated(t, key)[i]])

(* Series.sum() of the boolean mask *)
CountTrue(mask) == Cardinality({i \in 1..Len(mask) : mask[i]})

(* faulty variant: duplicated(keep=False), every row of a repeated key counted *)
drop_duplicates_by_key_CountAll(t) ==
    LET key == KeyOf(t)
        n   == Len(t.rows)
        all == {i \in 1..n : \E j \in 1..n :
                   j # i /\ Project(t, t.rows[j], key) = Project(t, t.rows[i], key)}
    IN  [out   |-> IF key # <<>> THEN DropDuplicates(t, key) ELSE t,
         dupes |-> IF key # <<>> THEN Cardinality(all) ELSE 0,
         key   |-> key]

drop_duplicates_by_key(t) ==
    LET key == KeyOf(t)
    IN  [out   |-> IF key # <<>> THEN DropDuplicates(t, key) ELSE t,
         dupes |-> IF key # <<>> THEN CountTrue(Duplicated(t, key)) ELSE 0,
         key   |-> key]

(***************************************************************************)
(* pd.read_csv(low_memory=False): the table main() starts from.  A column  *)
(* whose non-empty cells all parse as numbers is numeric (empty -> NaN);   *)
(* one whose non-empty cells are all boolean words holds booleans (and NaN *)
(* for empty cells); any other column holds its text (and NaN).            *)
(***************************************************************************)
NA_VALUES ==
    {<<>>, <<"N","A">>, <<"n","a","n">>, <<"N","a","N">>, <<"n","u","l","l">>, <<"N","U","L","L">>, <<"N","/","A">>, <<"n","/","a">>, <<"N","o","n","e">>, <<"#","N","/","A">>}

TRUE_VALUES == {<<"T","r","u","e">>, <<"T","R","U","E">>, <<"t","r","u","e">>}

FALSE_VALUES == {<<"F","a","l","s","e">>, <<"F","A","L","S","E">>, <<"f","a","l","s","e">>}

ReadColKind(texts) ==
    LET filled == texts \ NA_VALUES
    IN  IF \A x \in filled : ~IsNaN(ParseNumber(x)) THEN "number"
        ELSE IF \A x \in filled : x \in TRUE_VALUES \cup FALSE_VALUES THEN "bool"
        ELSE "text"

ReadCell(kind, x) ==
    IF x \in NA_VALUES THEN NaN
    ELSE CASE kind = "number" -> ParseNumber(x)
           [] kind = "bool"   -> Bool(x \in TRUE_VALUES)
           [] kind = "text"   -> Str(x)

(* csv: [columns: header texts, rows: rows of cell texts] *)
read_csv(csv) ==
    LET kind(j) == ReadColKind({csv.rows[r][j] : r \in 1..Len(csv.rows)})
    IN  Table(csv.columns,
              [r \in 1..Len(csv.rows) |->
                  [j \in 1..Len(csv.columns) |-> ReadCell(kind(j), csv.rows[r][j])]])

(***************************************************************************)
(* Explored input files.  A layout is a header and, per column, the cell   *)
(* texts a row may hold; its files have 0..MaxRows rows of those.          *)
(***************************************************************************)
Layout(columns, cells) == [columns |-> columns, cells |-> cells]

(* all rows of a layout: one text per column *)
RECURSIVE RowsFrom(_, _)
RowsFrom(cells, j) ==
    IF j > Len(cells) THEN {<<>>}
    ELSE {<<x>> \o rest : x \in cells[j], rest \in RowsFrom(cells, j + 1)}

PipelineLayouts ==
    { Layout(<<<<"T","r","i","p","-","D","u","r","a","t","i","o","n"," ","S","e","c">>, <<" ","T","I","P"," ">>, <<"N","o","t","e">>>>,
             <<{<<"1","2","0">>, <<"7">>}, {<<>>, <<"1",".","5">>}, {<<"a">>, <<"b">>}>>),
      Layout(<<<<"t","r","i","p","_","d","u","r","a","t","i","o","n","_","s","e","c">>, <<"T","r","i","p","_","D","u","r","a","t","i","o","n","_","M","i","n">>>>,
             <<{<<"0">>, <<"6","0">>, <<"x">>}, {<<"9","0">>, <<"-","1">>, <<>>}>>),
      Layout(<<<<"t","r","i","p"," ","d","u","r","a","t","i","o","n"," ","h","r">>, <<"N","o","t","e">>>>,
             <<{<<"5">>, <<"x">>}, {<<"a">>, <<"b">>}>>),
      Layout(<<<<"T","r","i","p","_","D","u","r","a","t","i","o","n","_","M","i","n">>, <<"t","r","i","p"," ","d","u","r","a","t","i","o","n"," ","h","r">>, <<"d","i","s","t","a","n","c","e","_","t","r","a","v","e","l","e","d","_","k","m">>>>,
             <<{<<"9","0">>, <<"1">>}, {<<"5">>, <<>>}, {<<"0">>, <<"2",".","5">>}>>),
      Layout(<<<<"K","P","H">>, <<"N","u","m","-","O","f"," ","P","a","s","s","e","n","g","e","r","s">>>>,
             <<{<<"1","6","0">>, <<"1","6","1">>, <<>>}, {<<"1">>, <<"0">>, <<"x">>}>>),
      Layout(<<<<"k","p","h">>, <<"S","u","r","g","e"," ","A","p","p","l","i","e","d">>>>,
             <<{<<"0">>, <<"3","0">>, <<"-","5">>}, {<<" ","T","R","U","E"," ">>, <<"n","o">>, <<"0">>}>>),
      Layout(<<<<"w","a","i","t","_","t","i","m","e","_","c","o","s","t">>, <<"d","i","s","t","a","n","c","e","_","c","o","s","t">>, <<"f","a","r","e","_","w","_","f","l","a","g">>>>,
             <<{<<"-","2">>, <<"0">>}, {<<"-","0",".","5">>, <<"3">>}, {<<>>, <<"-","1">>}>>),
      Layout(<<<<"m","i","s","c","e","l","l","a","n","e","o","u","s","_","f","e","e","s">>, <<"T","o","t","a","l","-","F","a","r","e"," ","N","e","w">>, <<"t","i","p">>>>,
             <<{<<"x">>, <<"-","1">>}, {<<"5">>, <<"-","2">>}, {<<"0">>, <<>>}>>),
      Layout(<<<<"t","r","i","p","_","d","u","r","a","t","i","o","n","_","s","e","c">>, <<"d","i","s","t","a","n","c","e","_","t","r","a","v","e","l","e","d","_","k","m">>, <<"t","o","t","a","l","_","f","a","r","e","_","n","e","w">>,
               <<"n","u","m","_","o","f","_","p","a","s","s","e","n","g","e","r","s">>, <<"t","i","p">>, <<"k","p","h">>, <<"s","u","r","g","e","_","a","p","p","l","i","e","d">>>>,
             <<{<<"1","2","0">>}, {<<"1",".","0">>}, {<<"5",".","0","0">>, <<"-","2",".","0","0">>}, {<<"1">>}, {<<"0">>}, {<<"3","0">>, <<>>},
               {<<"T","R","U","E">>, <<"f","a","l","s","e">>}>>),
      Layout(<<<<"s","u","r","g","e","_","a","p","p","l","i","e","d">>, <<"n","u","m","_","o","f","_","p","a","s","s","e","n","g","e","r","s">>>>,
             <<{<<"1">>, <<"0">>, <<>>}, {<<"2">>, <<"0",".","5">>}>>) }

(***************************************************************************)
(* main(): one step per pipeline stage (lines 103-111).                    *)
(* pc is the stage main() has completed; dup_count = -1 and key_used = <<>>*)
(* stand for "not yet bound" before line 111.                              *)
(***************************************************************************)
InitWith(layouts) ==
    /\ \E l \in layouts : \E n \in 0..MaxRows :
         \E rows \in [1..n -> RowsFrom(l.cells, 1)] :
            raw = read_csv(Table(l.columns, rows))
    /\ df = raw
    /\ pc = "read"
    /\ dup_count = -1
    /\ key_used = <<>>

Normalize ==
    /\ pc = "read"
    /\ df' = normalize_columns(raw)
    /\ pc' = "normalized"
    /\ UNCHANGED <<raw, dup_count, key_used>>

Coerce ==
    /\ pc = "normalized"
    /\ df' = coerce_types(df)
    /\ pc' = "coerced"
    /\ UNCHANGED <<raw, dup_count, key_used>>

Clean ==
    /\ pc = "coerced"
    /\ df' = clean_rows(df)
    /\ pc' = "cleaned"
    /\ UNCHANGED <<raw, dup_count, key_used>>

Recompute ==
    /\ pc = "cleaned"
    /\ df' = recompute_duration_fields(df)
    /\ pc' = "recomputed"
    /\ UNCHANGED <<raw, dup_count, key_used>>

Dedup ==
    /\ pc = "recomputed"
    /\ LET res == drop_duplicates_by_key(df)
       IN  /\ df' = res.out
           /\ dup_count' = res.dupes
           /\ key_used' = res.key
    /\ pc' = "done"
    /\ UNCHANGED raw

Init == InitWith(PipelineLayouts)

Next == Normalize \/ Coerce \/ Clean \/ Recompute \/ Dedup

Spec == Init /\ [][Next]_vars

(***************************************************************************)
(* coerce_types on its own: files whose cells probe the number parser and  *)
(* the surge_applied mapping, taken through read_csv, normalize_columns    *)
(* and coerce_types.                                                       *)
(***************************************************************************)
NumAlphabet == {"0", "1", "-", ".", "x", " "}

CoerceLayouts ==
    { Layout(<<<<"S","u","r","g","e"," ","A","p","p","l","i","e","d">>>>,
             <<{<<"t","r","u","e">>, <<" ","T","R","U","E"," ">>, <<"F","a","l","s","e">>, <<"1">>, <<"0">>, <<"y","e","s">>, <<>>, <<"1",".","0">>}>>),
      Layout(<<<<"s","u","r","g","e","_","a","p","p","l","i","e","d">>, <<"N","o","t","e">>>>,
             <<{<<"T","r","u","e">>, <<"F","A","L","S","E">>, <<>>}, {<<"7">>, <<>>}>>),
      Layout(<<<<"s","u","r","g","e","_","a","p","p","l","i","e","d">>, <<"K","P","H">>, <<"N","o","t","e">>>>,
             <<{<<"0">>, <<"2">>, <<>>}, {<<"1",".","5">>, <<"a","b","c">>}, {<<"x","1">>}>>),
      Layout(<<<<"T","r","i","p","-","D","u","r","a","t","i","o","n"," ","S","e","c">>, <<"z","o","n","e">>>>,
             <<{<<"1","2","0">>, <<"1","2","a">>, <<>>}, {<<"-","2">>, <<"b">>}>>) }

(* a file whose first row holds any short text in a numeric column *)
ProbeTails ==
    { <<>>, << <<<<"x">>, <<"b">>>> >>, << <<<<"3">>, <<"7">>>> >> }

InitCoerce ==
    /\ \/ \E l \in CoerceLayouts : \E n \in 0..MaxRows :
            \E rows \in [1..n -> RowsFrom(l.cells, 1)] :
               raw = read_csv(Table(l.columns, rows))
       \/ \E text \in SeqsUpTo(NumAlphabet, MaxCellLen) : \E tail \in ProbeTails :
            raw = read_csv(Table(<<<<"T","i","p">>, <<"N","o","t","e">>>>, << <<text, <<"a">>>> >> \o tail))
    /\ df = raw
    /\ pc = "read"
    /\ dup_count = -1
    /\ key_used = <<>>

NextCoerce == Normalize \/ Coerce

SpecCoerce == InitCoerce /\ [][NextCoerce]_vars

(***************************************************************************)
(* normalize_columns on its own: headers whose first name is any short     *)
(* text over letters, space, hyphen, underscore and tab.                   *)
(***************************************************************************)
NameAlphabet == {"A", "b", " ", "-", "_", "\t"}

SampleHeaders ==
    { <<>>, <<<<"T","r","i","p","-","D","u","r","a","t","i","o","n"," ","S","e","c">>>>, <<<<" ","T","I","P"," ">>, <<"S","u","r","g","e"," ","A","p","p","l","i","e","d">>>> }

SampleRows(n) ==
    << [j \in 1..n |-> <<"1">>], [j \in 1..n |-> <<"x">>] >>

InitNorm ==
    /\ \E name \in SeqsUpTo(NameAlphabet, MaxNameLen) \ {<<>>} : \E more \in SampleHeaders :
          raw = read_csv(Table(<<name>> \o more, SampleRows(1 + Len(more))))
    /\ df = raw
    /\ pc = "read"
    /\ dup_count = -1
    /\ key_used = <<>>

NextNorm == Normalize

SpecNorm == InitNorm /\ [][NextNorm]_vars

(***************************************************************************)
(* The table main() holds after each stage, as a function of raw.          *)
(***************************************************************************)
AfterNormalize == normalize_columns(raw)

AfterCoerce == coerce_types(AfterNormalize)

AfterClean == clean_rows(AfterCoerce)

AfterRecompute == recompute_duration_fields(AfterClean)

(***************************************************************************)
(* Vocabulary of the properties.                                           *)
(***************************************************************************)
IsNum(c) == c.t = "num"

IsPositive(c) == IsNum(c) /\ c.n > 0

IsNegative(c) == IsNum(c) /\ c.n < 0

RowIdx(t) == 1..Len(t.rows)

(* the validity rules on the columns the table has *)
SatisfiesRules(t, row) ==
    /\ HasCol(t, trip_duration_sec) => IsPositive(Cell(t, row, trip_duration_sec))
    /\ HasCol(t, trip_duration_min) => IsPositive(Cell(t, row, trip_duration_min))
    /\ HasCol(t, distance_traveled_km) => IsPositive(Cell(t, row, distance_traveled_km))
    /\ \A m \in Range(MONEY_COLS) : HasCol(t, m) => ~IsNegative(Cell(t, row, m))
    /\ HasCol(t, num_of_passengers) =>
          LET c == Cell(t, row, num_of_passengers) IN IsNum(c) /\ c.n >= c.d
    /\ HasCol(t, kph) =>
          LET c == Cell(t, row, kph) IN IsNum(c) /\ c.n > 0 /\ c.n <= 160 * c.d

(* C1: from clean_rows on, through recompute_duration_fields and           *)
(* drop_duplicates_by_key to the final output, every row satisfies every   *)
(* validity rule whose column is present: durations and distance > 0, no   *)
(* monetary value < 0, passengers >= 1, 0 < kph <= 160.                    *)
C1_OutputRowsValid ==
    pc \in {"cleaned", "recomputed", "done"} =>
        \A i \in RowIdx(df) : SatisfiesRules(df, df.rows[i])

(* a final output with a derived minutes column and a speed column, some   *)
(* rows kept and some rows filtered out                                    *)
C1_Witness ==
    /\ pc = "done"
    /\ df.rows # <<>>
    /\ Len(AfterClean.rows) < Len(raw.rows)
    /\ \/ HasCol(df, kph)
       \/ HasCol(df, trip_duration_min) /\ ~HasCol(AfterClean, trip_duration_min)

(***************************************************************************)
(* Deduplication.                                                          *)
(***************************************************************************)
KeyPresent(t) == {c \in Range(COMPOSITE_KEY) : HasCol(t, c)}

(* two rows differ on some present key column (missing equals missing) *)
KeysDiffer(t, r1, r2) == \E c \in KeyPresent(t) : Cell(t, r1, c) # Cell(t, r2, c)

(* C2: in the final output, when some composite-key column is present, no  *)
(* two distinct rows agree on every present key column.                    *)
C2_NoDuplicateKeys ==
    (pc = "done" /\ KeyPresent(df) # {}) =>
        \A i, j \in RowIdx(df) : i < j => KeysDiffer(df, df.rows[i], df.rows[j])

(* a duplicate whose key holds a missing value was removed *)
C2_Witness ==
    /\ pc = "done"
    /\ dup_count >= 1
    /\ \E i, j \in RowIdx(AfterRecompute) :
          /\ i < j
          /\ ~KeysDiffer(AfterRecompute, AfterRecompute.rows[i], AfterRecompute.rows[j])
          /\ \E c \in KeyPresent(AfterRecompute) :
                IsNaN(Cell(AfterRecompute, AfterRecompute.rows[i], c))

(* rows of t that agree with no earlier row on the present key columns *)
FirstOccurrences(t) ==
    {i \in RowIdx(t) : \A j \in 1..(i - 1) : KeysDiffer(t, t.rows[j], t.rows[i])}

(* the k-th smallest element of a set of integers *)
KthOf(S, k) == CHOOSE i \in S : Cardinality({j \in S : j < i}) = k - 1

(* C3: drop_duplicates_by_key returns, in original order, exactly the rows *)
(* whose key projection equals that of no earlier row; with no key column  *)
(* present it returns its input unchanged.                                 *)
C3_FirstOccurrenceKept ==
    pc = "done" =>
        LET in   == AfterRecompute
            keep == FirstOccurrences(in)
        IN  IF KeyPresent(in) = {}
            THEN df = in
            ELSE /\ df.columns = in.columns
                 /\ Len(df.rows) = Cardinality(keep)
                 /\ \A k \in 1..Cardinality(keep) : df.rows[k] = in.rows[KthOf(keep, k)]

(* a later duplicate was dropped from between or after distinct rows, and  *)
(* it was not identical to the row kept                                    *)
C3_Witness ==
    /\ pc = "done"
    /\ Len(df.rows) >= 2
    /\ \E i, j \in RowIdx(AfterRecompute) :
          /\ i < j
          /\ ~KeysDiffer(AfterRecompute, AfterRecompute.rows[i], AfterRecompute.rows[j])
          /\ AfterRecompute.rows[i] # AfterRecompute.rows[j]

(* C4: the reported duplicate count is the number of rows that survived    *)
(* clean_rows minus the number of rows of the final output, and 0 when no  *)
(* composite-key column is present.                                        *)
C4_DupCount ==
    pc = "done" =>
        /\ dup_count = Len(AfterClean.rows) - Len(df.rows)
        /\ KeyPresent(df) = {} => dup_count = 0

(* duplicates were removed in a run where the filter removed rows too *)
C4_Witness ==
    /\ pc = "done"
    /\ dup_count >= 1
    /\ Len(AfterClean.rows) < Len(raw.rows)

(***************************************************************************)
(* Hours.                                                                  *)
(***************************************************************************)
Micro == Pow10(HrDecimals)

(* h is xn/xd (xd > 0) rounded to 6 decimals: a whole number of millionths *)
(* at most half a millionth away from xn/xd                                *)
IsRounded6(h, xn, xd) ==
    /\ IsNum(h)
    /\ Micro % h.d = 0
    /\ LET k == h.n * (Micro \div h.d)
       IN  Abs(2 * (k * xd - xn * Micro)) <= xd

HasValue(t, row, c) == HasCol(t, c) /\ IsNum(Cell(t, row, c))

(* the hours of an output row against the minutes / seconds of the input row *)
HoursConsistent(in, inRow, out, outRow) ==
    /\ HasCol(out, trip_duration_hr)
    /\ IsNum(Cell(out, outRow, trip_duration_hr))
    /\ HasValue(in, inRow, trip_duration_min) =>
          LET m == Cell(in, inRow, trip_duration_min)
          IN  IsRounded6(Cell(out, outRow, trip_duration_hr), m.n, m.d * 60)
    /\ (~HasValue(in, inRow, trip_duration_min) /\ HasValue(in, inRow, trip_duration_sec)) =>
          LET x == Cell(in, inRow, trip_duration_sec)
          IN  IsRounded6(Cell(out, outRow, trip_duration_hr), x.n, x.d * 3600)

(* the table without column c *)
WithoutCol(t, c) ==
    LET keep == {j \in 1..Len(t.columns) : t.columns[j] # c}
        n    == Cardinality(keep)
    IN  Table([k \in 1..n |-> t.columns[KthOf(keep, k)]],
              [r \in 1..Len(t.rows) |-> [k \in 1..n |-> t.rows[r][KthOf(keep, k)]]])

(* C5: after recompute_duration_fields, and in the final output, when the  *)
(* table has a minutes or a seconds column every row has trip_duration_hr  *)
(* present, equal to round(minutes / 60, 6) when a minutes value is        *)
(* present and to round(seconds / 3600, 6) when only seconds is present,   *)
(* whatever hours value the row held before; with neither source column    *)
(* the table, trip_duration_hr included, is left as it was.                *)
C5_HoursRecomputed ==
    /\ pc = "recomputed" =>
          LET in == AfterClean
          IN  IF HasCol(in, trip_duration_min) \/ HasCol(in, trip_duration_sec)
              THEN /\ Len(df.rows) = Len(in.rows)
                   /\ \A i \in RowIdx(df) :
                         HoursConsistent(in, in.rows[i], df, df.rows[i])
              ELSE df = in
    /\ pc = "done" =>
          IF HasCol(df, trip_duration_min) \/ HasCol(df, trip_duration_sec)
          THEN \A i \in RowIdx(df) :
                  /\ HoursConsistent(df, df.rows[i], df, df.rows[i])
                  /\ ~HasCol(AfterClean, trip_duration_min) =>
                        LET secOnly == WithoutCol(df, trip_duration_min)
                        IN  HoursConsistent(secOnly, secOnly.rows[i], df, df.rows[i])
          ELSE /\ df.columns = AfterClean.columns
               /\ \A i \in RowIdx(df) : df.rows[i] \in Range(AfterClean.rows)

(* an hours value read from the file was overwritten by the recomputed one *)
C5_Witness ==
    /\ pc = "recomputed"
    /\ HasCol(AfterClean, trip_duration_hr)
    /\ HasCol(AfterClean, trip_duration_min)
    /\ \E i \in RowIdx(df) :
          /\ IsNum(Cell(AfterClean, AfterClean.rows[i], trip_duration_hr))
          /\ Cell(df, df.rows[i], trip_duration_hr)
                # Cell(AfterClean, AfterClean.rows[i], trip_duration_hr)

(***************************************************************************)
(* Filtering.                                                              *)
(***************************************************************************)
(* a numeric cell with a missing value read as 0 *)
OrZero(c) == IF IsNaN(c) THEN [n |-> 0, d |-> 1] ELSE [n |-> c.n, d |-> c.d]

(* the conjunction of the rules on the columns the table has *)
PassesAll(t, row) ==
    /\ HasCol(t, trip_duration_sec) => OrZero(Cell(t, row, trip_duration_sec)).n > 0
    /\ HasCol(t, trip_duration_min) => OrZero(Cell(t, row, trip_duration_min)).n > 0
    /\ HasCol(t, distance_traveled_km) => OrZero(Cell(t, row, distance_traveled_km)).n > 0
    /\ \A m \in Range(MONEY_COLS) : HasCol(t, m) => OrZero(Cell(t, row, m)).n >= 0
    /\ HasCol(t, num_of_passengers) =>
          LET v == OrZero(Cell(t, row, num_of_passengers)) IN v.n >= v.d
    /\ HasCol(t, kph) =>
          LET v == OrZero(Cell(t, row, kph)) IN v.n > 0 /\ v.n <= 160 * v.d

(* the same filters applied in the opposite order *)
CleanRowsReversed(t) ==
    FilterPositive(FilterPositive(FilterPositive(FilterMoney(FilterPassengers(FilterKph(t)), 1),
        distance_traveled_km), trip_duration_min), trip_duration_sec)

(* C6: clean_rows keeps, in their original order, exactly the rows that    *)
(* pass every rule whose column is present, a missing value read as 0; a   *)
(* rule on an absent column removes nothing; the order of the rules does   *)
(* not matter.                                                             *)
C6_FilterIsConjunction ==
    pc = "cleaned" =>
        LET in == AfterCoerce
            Pass(row) == PassesAll(in, row)
        IN  /\ df = Table(in.columns, SelectSeq(in.rows, Pass))
            /\ df = CleanRowsReversed(in)

(* a row with a missing monetary value was kept while another was dropped *)
C6_Witness ==
    /\ pc = "cleaned"
    /\ 0 < Len(df.rows) /\ Len(df.rows) < Len(AfterCoerce.rows)
    /\ \E i \in RowIdx(df) : \E m \in Range(MONEY_COLS) :
          HasCol(df, m) /\ IsNaN(Cell(df, df.rows[i], m))

(***************************************************************************)
(* Coercion.                                                               *)
(***************************************************************************)
AllIn(s, S) == \A k \in 1..Len(s) : s[k] \in S

DigitChars == Range(DIGITS)

(* the readings of a text as a decimal numeral: optional blanks, optional  *)
(* sign, integer digits, optional "." and fraction digits, optional blanks *)
Numerals(s) ==
    LET n == Len(s)
    IN  { [neg |-> (b > a /\ s[b] = "-"),
           ip  |-> SubSeq(s, b + 1, c),
           fp  |-> SubSeq(s, c + 2, e)] :
          <<a, b, c, e>> \in
            { q \in (0..n) \X (0..n) \X (0..n) \X (0..n) :
                /\ q[1] <= q[2] /\ q[2] <= q[1] + 1 /\ q[2] <= q[3]
                /\ q[4] = q[3] \/ q[4] >= q[3] + 1
                /\ AllIn(SubSeq(s, 1, q[1]), Whitespace)
                /\ q[2] > q[1] => s[q[2]] \in {"-", "+"}
                /\ AllIn(SubSeq(s, q[2] + 1, q[3]), DigitChars)
                /\ q[4] > q[3] => s[q[3] + 1] = "."
                /\ AllIn(SubSeq(s, q[3] + 2, q[4]), DigitChars)
                /\ (q[3] - q[2]) + (IF q[4] > q[3] THEN q[4] - q[3] - 1 ELSE 0) >= 1
                /\ AllIn(SubSeq(s, q[4] + 1, n), Whitespace) } }

(* cell y is the number a numeral denotes *)
Denotes(y, num) ==
    /\ IsNum(y)
    /\ y.n * Pow10(Len(num.fp))
          = (IF num.neg THEN -1 ELSE 1) * DigitsVal(num.ip \o num.fp) * y.d

(* what a cell of a numeric-registry column must become *)
CoercedNumber(x, y) ==
    CASE x.t = "str"  -> IF Numerals(x.s) = {}
                         THEN y = NaN
                         ELSE \A num \in Numerals(x.s) : Denotes(y, num)
      [] x.t = "num"  -> y = x
      [] x.t = "nan"  -> y = NaN
      [] x.t = "bool" -> IsNum(y) /\ y.n = x.n /\ y.d = 1

(* C7: coerce_types keeps the header, the rows and their order; in a       *)
(* numeric-registry column a cell that does not parse as a number becomes  *)
(* missing and a cell that parses becomes its number; every column outside *)
(* the numeric registry and surge_applied is unchanged.                    *)
C7_CoercePreservesRows ==
    pc = "coerced" =>
        LET in == AfterNormalize
        IN  /\ df.columns = in.columns
            /\ Len(df.rows) = Len(in.rows)
            /\ \A r \in RowIdx(df) :
                  /\ Len(df.rows[r]) = Len(in.rows[r])
                  /\ \A j \in 1..Len(in.columns) :
                        IF in.columns[j] \in Range(NUM_COLS)
                        THEN CoercedNumber(in.rows[r][j], df.rows[r][j])
                        ELSE in.columns[j] # surge_applied =>
                                df.rows[r][j] = in.rows[r][j]

(* one numeric column held both a text that parses and a text that does not *)
C7_Witness ==
    /\ pc = "coerced"
    /\ \E j \in 1..Len(df.columns) : \E r1, r2 \in RowIdx(df) :
          /\ df.columns[j] \in Range(NUM_COLS)
          /\ AfterNormalize.rows[r1][j].t = "str"
          /\ AfterNormalize.rows[r2][j].t = "str"
          /\ IsNum(df.rows[r1][j])
          /\ IsNaN(df.rows[r2][j])

(* word, written in any mix of upper and lower case *)
SameIgnoringCase(s, word) ==
    /\ Len(s) = Len(word)
    /\ \A k \in 1..Len(s) : CharLower(s[k]) = word[k]

(* the text, without surrounding whitespace, reads "true" or "1" *)
ReadsTrue(s) ==
    \E a, b \in 0..Len(s) :
        /\ a <= b
        /\ AllIn(SubSeq(s, 1, a), Whitespace)
        /\ AllIn(SubSeq(s, b + 1, Len(s)), Whitespace)
        /\ \/ SameIgnoringCase(SubSeq(s, a + 1, b), <<"t","r","u","e">>)
           \/ SubSeq(s, a + 1, b) = <<"1">>

(* C8: after coerce_types every cell of a present surge_applied column is  *)
(* a boolean.  In a textual (object) column a cell is true exactly when    *)
(* its trimmed, lowercased text is "true" or "1" (a boolean already there  *)
(* keeps its value) and every other cell, missing included, is false; in a *)
(* numeric or boolean column zero and False are false, everything else,    *)
(* true.                                                                   *)
C8_SurgeIsBoolean ==
    (pc = "coerced" /\ HasCol(df, surge_applied)) =>
        LET in == AfterNormalize
        IN  \A r \in RowIdx(df) :
              LET x == Cell(in, in.rows[r], surge_applied)
                  y == Cell(df, df.rows[r], surge_applied)
              IN  /\ y \in {Bool(TRUE), Bool(FALSE)}
                  /\ IF ColDtype(in, surge_applied) = "object"
                     THEN y = Bool(\/ x.t = "str" /\ ReadsTrue(x.s)
                                   \/ x.t = "bool" /\ x.n = 1)
                     ELSE y = Bool(~(x.t \in {"num", "bool"} /\ x.n = 0))

(* a textual column with a padded upper-case "true", an unrecognised word  *)
(* and a missing cell                                                      *)
C8_Witness ==
    /\ pc = "coerced"
    /\ HasCol(df, surge_applied)
    /\ \E r1, r2, r3 \in RowIdx(df) :
          /\ Cell(AfterNormalize, AfterNormalize.rows[r1], surge_applied) = Str(<<" ","T","R","U","E"," ">>)
          /\ Cell(df, df.rows[r1], surge_applied) = Bool(TRUE)
          /\ Cell(AfterNormalize, AfterNormalize.rows[r2], surge_applied) = Str(<<"y","e","s">>)
          /\ Cell(df, df.rows[r2], surge_applied) = Bool(FALSE)
          /\ IsNaN(Cell(AfterNormalize, AfterNormalize.rows[r3], surge_applied))
          /\ Cell(df, df.rows[r3], surge_applied) = Bool(FALSE)

(***************************************************************************)
(* Column names.                                                           *)
(***************************************************************************)
(* C9: normalize_columns is idempotent on the header, keeps the number of  *)
(* columns and leaves every row as it was.                                 *)
C9_NormalizeIdempotent ==
    pc = "normalized" =>
        /\ normalize_columns(df).columns = df.columns
        /\ Len(df.columns) = Len(raw.columns)
        /\ df.rows = raw.rows

(* a header that normalization changed, over a table with rows *)
C9_Witness ==
    /\ pc = "normalized"
    /\ raw.rows # <<>>
    /\ \A j \in 1..Len(raw.columns) : df.columns[j] # raw.columns[j]

(* C10 as stated: every normalized name is lowercase and holds no          *)
(* whitespace character and no hyphen.                                     *)
C10_NoWhitespaceAtAll ==
    pc = "normalized" =>
        \A j \in 1..Len(df.columns) : \A k \in 1..Len(df.columns[j]) :
            LET ch == df.columns[j][k]
            IN  ~IsUpper(ch) /\ ch \notin Whitespace /\ ch # "-"

(* C10, amended: every normalized name is lowercase, holds no space and no *)
(* hyphen, and neither starts nor ends with whitespace; whitespace other   *)
(* than the space character inside a name stays.                           *)
C10_NoSpaceNoHyphen ==
    pc = "normalized" =>
        \A j \in 1..Len(df.columns) :
            LET name == df.columns[j]
            IN  /\ \A k \in 1..Len(name) :
                      ~IsUpper(name[k]) /\ name[k] # " " /\ name[k] # "-"
                /\ name # <<>> =>
                      name[1] \notin Whitespace /\ name[Len(name)] \notin Whitespace

(* a name with upper case, and a name with a tab inside, were normalized *)
C10_Witness ==
    /\ pc = "normalized"
    /\ \E k \in 1..Len(raw.columns[1]) : raw.columns[1][k] = "\t"
    /\ \E k \in 1..Len(raw.columns[1]) : IsUpper(raw.columns[1][k])
    /\ \E k \in 1..Len(df.columns[1]) : df.columns[1][k] = "\t"

====
